---- MODULE Spec2Model ----
(***************************************************************************)
(* Model of the V2 express firmware (src/firmware/express/express.ino):    *)
(* a 16 port analog expression controller.  The main loop services the     *)
(* LED strip, the USB MIDI endpoint (MIDI::loop), the two link ports       *)
(* (Link::receivePlug, Link::receiveSocket) and the device itself          *)
(* (Device::handleLoop: measure the ports, send Control Changes).          *)
(*                                                                         *)
(* Floats are fixed-point numbers: range.min, range.max and the ADC        *)
(* readings are counted in 1/Scale, products and quotients are kept as     *)
(* fractions [num, den].  The V2Potentiometer filter, the WS2812 driver    *)
(* and the V2Device/V2Link/V2MIDI libraries are not part of the firmware   *)
(* source; the filter's answer to a measurement is any of its outcomes.    *)
(***************************************************************************)
EXTENDS Integers, Sequences, FiniteSets, TLC

\* ---------------------------------------------------------------- bounds
\* Ports whose sensor moves and which a configuration document may name;
\* the remaining ports exist, rest at position 0 and keep their defaults.
ActivePorts == 1
\* The filter quantizes to the steps 0..MaxStep.
MaxStep == 1
\* The clock stops after MaxTime ticks of UsecPerTick microseconds.
MaxTime == 4

\* ------------------------------------------------------- program constants
\* Ports.count.
Ports_count == 16
\* range.min, range.max and the readings count in 1/Scale (the settings'
\* step of 0.01).
Scale == 100
\* V2MIDI::C(3), the first note of the LED window.
C3 == 60
\* V2MIDI::CC::GeneralPurpose1, Controller90, AllSoundOff, AllNotesOff.
GeneralPurpose1 == 16
Rainbow == 90
AllSoundOff == 120
AllNotesOff == 123
\* The address 0x0f Link::receiveSocket does not forward.
BroadcastAddress == 15

\* The clock advances in ticks of 30 ms; the ports are measured when more
\* than 10 ms and sent when more than 50 ms have passed.
UsecPerTick == 30 * 1000
MeasureUsec == 10 * 1000
EventsUsec == 50 * 1000

PortIds == 0 .. (Ports_count - 1)
ActiveIds == 0 .. (ActivePorts - 1)
PortSeq == [k \in 1 .. Ports_count |-> k - 1]

\* An optional value (a JSON member, a received packet): <<>> or <<v>>.
None == << >>
Some(v) == <<v>>
isNull(x) == x = << >>
Val(x) == x[1]

\* A fraction num/den; floats the code multiplies or divides.
Frac(n, d) == [num |-> n, den |-> d]
FracEq(a, b) == a.num * b.den = b.num * a.den

VARIABLES
  config,        \* Device::config.ports[]: channel, controller, range
  _potis,        \* Device::_potis[]: the filters' step and fraction
  _steps,        \* Device::_steps[]: the step last sent per port
  _measureUsec,  \* Device::_measureUsec (in ticks)
  _eventsUsec,   \* Device::_eventsUsec (in ticks)
  _rainbow,      \* Device::_rainbow, in 1/127
  led,           \* the LED strip: pixels and the rainbow animation
  usbConnected,  \* Device.usb.midi.connected()
  now,           \* V2Base::getUsec() (in ticks)
  pc,            \* the service loop() runs next
  op,            \* the handler that ran last and the packet it received
  out,           \* what the last handler sent and dispatched
  passes         \* emission passes since the last handleReset(): 0, 1, more

vars == <<config, _potis, _steps, _measureUsec, _eventsUsec, _rainbow, led,
          usbConnected, now, pc, op, out, passes>>

\* ------------------------------------------------------------ configuration
\* struct config.ports[i] and its default initializers.
DefaultPort(i) ==
  [channel |-> 0, controller |-> GeneralPurpose1 + i,
   invert |-> FALSE, min |-> 0, max |-> Scale]

DefaultConfig == [i \in PortIds |-> DefaultPort(i)]

\* uint8_t channel = jsonPort["channel"], then the three-way clamp.
importChannel(channel) ==
  IF channel < 1 THEN 0
  ELSE IF channel > 16 THEN 95
  ELSE channel - 1

\* The controller stored as the document gives it.
importController_asGiven(controller) == controller

\* config.ports[i].controller = jsonPort["controller"], capped at 127.
importController(controller) ==
  IF controller > 127 THEN 127 ELSE controller

\* jsonRange["min"] clamped to the nearer end of [0,1].
importMin_nearest(p, v) ==
  LET value == IF v < 0 THEN 0 ELSE IF v > Scale THEN Scale ELSE v
      q == [p EXCEPT !.min = value]
  IN IF q.min >= q.max THEN [q EXCEPT !.max = Scale] ELSE q

\* jsonRange["min"]: an out-of-range value becomes 0; a min that reaches
\* max sets max to 1.
importMin(p, v) ==
  LET value == IF v < 0 \/ v > Scale THEN 0 ELSE v
      q == [p EXCEPT !.min = value]
  IN IF q.min >= q.max THEN [q EXCEPT !.max = Scale] ELSE q

\* jsonRange["max"]: an out-of-range value becomes 1; a max that min
\* reaches sets min to 0.
importMax(p, v) ==
  LET value == IF v < 0 \/ v > Scale THEN Scale ELSE v
      q == [p EXCEPT !.max = value]
  IN IF q.min >= q.max THEN [q EXCEPT !.min = 0] ELSE q

\* The "range" member of a port object: invert, then min, then max.
importRange(p, jsonRange) ==
  LET p1 == IF isNull(jsonRange.invert) THEN p
            ELSE [p EXCEPT !.invert = Val(jsonRange.invert)]
      p2 == IF isNull(jsonRange.min) THEN p1 ELSE importMin(p1, Val(jsonRange.min))
      p3 == IF isNull(jsonRange.max) THEN p2 ELSE importMax(p2, Val(jsonRange.max))
  IN p3

\* One iteration of the import loop reading the channel without asking
\* whether the document has one: a missing member reads as 0.
importPort_readsNull(p, jsonPort) ==
  LET p1 == IF isNull(jsonPort.channel) THEN [p EXCEPT !.channel = importChannel(0)]
            ELSE [p EXCEPT !.channel = importChannel(Val(jsonPort.channel))]
      p2 == IF isNull(jsonPort.controller) THEN p1
            ELSE [p1 EXCEPT !.controller = importController(Val(jsonPort.controller))]
      p3 == IF isNull(jsonPort.range) THEN p2
            ELSE importRange(p2, Val(jsonPort.range))
  IN p3

\* One iteration of the loop over the ports: channel, controller, range.
importPort(p, jsonPort) ==
  LET p1 == IF isNull(jsonPort.channel) THEN p
            ELSE [p EXCEPT !.channel = importChannel(Val(jsonPort.channel))]
      p2 == IF isNull(jsonPort.controller) THEN p1
            ELSE [p1 EXCEPT !.controller = importController(Val(jsonPort.controller))]
      p3 == IF isNull(jsonPort.range) THEN p2
            ELSE importRange(p2, Val(jsonPort.range))
  IN p3

\* A JSON object without members: what jsonPorts[i] is past the array's end.
NullPort == [channel |-> None, controller |-> None, range |-> None]

\* jsonPorts[i] of the array json["ports"].
jsonPortAt(jsonPorts, i) ==
  IF i + 1 <= Len(jsonPorts) THEN jsonPorts[i + 1] ELSE NullPort

\* Device::importConfiguration: nothing without a "ports" array.
importConfiguration(cfg, json) ==
  IF isNull(json.ports) THEN cfg
  ELSE [i \in PortIds |-> importPort(cfg[i], jsonPortAt(Val(json.ports), i))]

\* String(value, 2) read back as a number: the value rounded to hundredths.
String2(value) == (((value * 100 + Scale \div 2) \div Scale) * Scale) \div 100

\* Device::exportConfiguration: a "ports" array with an object for every
\* port: channel + 1, controller, and the range with min and max in two
\* decimals.
exportConfiguration(cfg) ==
  [ports |-> Some([k \in 1 .. Ports_count |->
     [channel |-> Some(cfg[k - 1].channel + 1),
      controller |-> Some(cfg[k - 1].controller),
      range |-> Some([invert |-> Some(cfg[k - 1].invert),
                      min |-> Some(String2(cfg[k - 1].min)),
                      max |-> Some(String2(cfg[k - 1].max))])]])]

\* ------------------------------------------------------------------ packets
\* A V2MIDI::Packet: the port (cable) field and the message; "from" names
\* the transport it arrived on ("device": built by Device::sendEvents).
Packet(from, port, status, channel, d1, d2) ==
  [from |-> from, port |-> port, status |-> status,
   channel |-> channel, d1 |-> d1, d2 |-> d2]

\* _midi.setControlChange(channel, controller, value) on Device::_midi,
\* whose port field is 0 since construction and since handleReset.
\* The channel field of a MIDI message is 4 bits wide: of a channel above
\* 15 the message carries the low 4 bits at most.
setControlChange(channel, controller, value) ==
  Packet("device", 0, "ControlChange", channel % 16, controller, value)

\* packet->receive(&_midi): the MIDI message a link packet carries.
receive(packet) == [packet.midi EXCEPT !.port = packet.address]

\* ---------------------------------------------------------------- LED strip
PixelOff == [h |-> 0, s |-> 0, v |-> Frac(0, 1)]

\* LED.reset(): every pixel dark, no animation.
LedReset == [pix |-> [i \in PortIds |-> PixelOff], rainbow |-> None]

setHSV(l, i, h, s, v) == [l EXCEPT !.pix[i] = [h |-> h, s |-> s, v |-> v]]
setBrightness(l, i, v) == [l EXCEPT !.pix[i].v = v]
rainbow(l, cycles, speed) ==
  [l EXCEPT !.rainbow = Some([cycles |-> cycles, speed |-> speed])]

\* ------------------------------------------------------------------- filter
\* V2Potentiometer after reset(), and what measure() may leave behind: one
\* of the steps, with the fraction that step stands for.
PotiOutcome(s) == [step |-> s, fraction |-> Frac(s, MaxStep)]
PotiReset == PotiOutcome(0)
PotiOutcomes == {PotiOutcome(s) : s \in 0 .. MaxStep}

\* ------------------------------------------------------------------- device
\* The device's runtime state as the handlers see it, with what the handler
\* has sent (sent), dispatched and emitted (cc: the ports a Control Change
\* went out for), read from the ADC and handed to the filters (measured) so
\* far, and whether it has run an emission pass (pass).
D ==
  [potis |-> _potis, steps |-> _steps, measureUsec |-> _measureUsec,
   eventsUsec |-> _eventsUsec, rainbow |-> _rainbow, led |-> led,
   passes |-> passes,
   sent |-> << >>, dispatched |-> << >>, cc |-> << >>, measured |-> << >>,
   pass |-> FALSE]

\* Device::play: light or clear the pixel of a note of the window.
play(d, note, velocity) ==
  IF note < C3 THEN d
  ELSE LET n == note - C3
       IN IF n >= Ports_count THEN d
          ELSE IF velocity > 0
               THEN [d EXCEPT !.led = setHSV(@, n, 120, 1, Frac(velocity, 127))]
               ELSE [d EXCEPT !.led = setBrightness(@, n, Frac(0, 1))]

\* Device::handleReset filling the cache with a value no step has.
handleReset_sentinel(d, t) ==
  [d EXCEPT !.led = LedReset,
            !.potis = [i \in PortIds |-> PotiReset],
            !.steps = [i \in PortIds |-> 255],
            !.measureUsec = 0,
            !.eventsUsec = t,
            !.rainbow = 0,
            !.passes = 0]

\* Device::handleReset at time t.
handleReset(d, t) ==
  [d EXCEPT !.led = LedReset,
            !.potis = [i \in PortIds |-> PotiReset],
            !.steps = [i \in PortIds |-> 0],
            !.measureUsec = 0,
            !.eventsUsec = t,
            !.rainbow = 0,
            !.passes = 0]

\* Device::handleSend with the Plug link served before the USB endpoint.
handleSend_plugFirst(midi) ==
  << [to |-> "plug", pkt |-> midi], [to |-> "usb", pkt |-> midi] >>

\* Device::handleSend: the USB endpoint, then the Plug link.
handleSend(midi) ==
  << [to |-> "usb", pkt |-> midi], [to |-> "plug", pkt |-> midi] >>

\* The test of Device::sendEvents without the force flag.
emits_changed(d, force, i) == d.steps[i] # d.potis[i].step

\* The test of Device::sendEvents without the comparison with the cache.
emits_always(d, force, i) == TRUE

\* The test at the head of the loop in Device::sendEvents: port i is sent.
emits(d, force, i) == force \/ d.steps[i] # d.potis[i].step

\* Device::sendEvents: for every port that is forced or whose step moved,
\* the pixel, the Control Change and the cache, in the order of the ports.
sendEvents(d, cfg, force) ==
  LET E == SelectSeq(PortSeq, LAMBDA i : emits(d, force, i))
      midi(i) == setControlChange(cfg[i].channel, cfg[i].controller,
                                  d.potis[i].step)
      S == [k \in 1 .. 2 * Len(E) |-> handleSend(midi(E[(k + 1) \div 2]))[2 - (k % 2)]]
      on(i) == \E k \in 1 .. Len(E) : E[k] = i
  IN [d EXCEPT
        !.led = [@ EXCEPT !.pix = [i \in PortIds |->
                   IF on(i) THEN [@[i] EXCEPT !.v = d.potis[i].fraction]
                   ELSE @[i]]],
        !.steps = [i \in PortIds |-> IF on(i) THEN d.potis[i].step ELSE @[i]],
        !.sent = @ \o S,
        !.cc = @ \o E,
        !.passes = IF @ < 2 THEN @ + 1 ELSE 2,
        !.pass = TRUE]

\* Device::allNotesOff asking for a new measurement as well.
allNotesOff_resample(d, cfg) == [sendEvents(d, cfg, TRUE) EXCEPT !.measureUsec = 0]

\* Device::allNotesOff.
allNotesOff(d, cfg) == sendEvents(d, cfg, TRUE)

\* Device::handleNote and Device::handleNoteOff.
handleNote(d, channel, note, velocity) == play(d, note, velocity)
\* Device::handleNoteOff playing the note with its release velocity.
handleNoteOff_velocity(d, channel, note, velocity) == play(d, note, velocity)
handleNoteOff(d, channel, note, velocity) == play(d, note, 0)

\* Device::handleControlChange with a Rainbow case that runs on into the
\* case of All Notes Off.
handleControlChange_fallsThrough(d, cfg, channel, controller, value) ==
  CASE controller = Rainbow ->
         LET r == [d EXCEPT !.rainbow = value]
         IN IF value <= 0
            THEN allNotesOff([r EXCEPT !.led = LedReset], cfg)
            ELSE allNotesOff([r EXCEPT !.led = rainbow(@, 1, Frac(1143 - 8 * value, 254))], cfg)
    [] controller \in {AllNotesOff, AllSoundOff} -> allNotesOff(d, cfg)
    [] OTHER -> d

\* Device::handleControlChange.
handleControlChange(d, cfg, channel, controller, value) ==
  CASE controller = Rainbow ->
         LET r == [d EXCEPT !.rainbow = value]
         IN IF value <= 0
            THEN [r EXCEPT !.led = LedReset]
            ELSE [r EXCEPT !.led = rainbow(@, 1, Frac(1143 - 8 * value, 254))]
    [] controller \in {AllNotesOff, AllSoundOff} -> allNotesOff(d, cfg)
    [] OTHER -> d

\* Device::handleSystemReset: V2Device::reset() runs handleReset.
handleSystemReset(d, t) == handleReset(d, t)

\* Device.dispatch(transport, &midi): the handler of the message's type.
dispatch(d, cfg, t, midi) ==
  LET e == [d EXCEPT !.dispatched = Append(@, midi)]
  IN CASE midi.status = "NoteOn" -> handleNote(e, midi.channel, midi.d1, midi.d2)
       [] midi.status = "NoteOff" -> handleNoteOff(e, midi.channel, midi.d1, midi.d2)
       [] midi.status = "ControlChange" ->
            handleControlChange(e, cfg, midi.channel, midi.d1, midi.d2)
       [] midi.status = "SystemReset" -> handleSystemReset(e, t)
       [] OTHER -> e

\* measurePort without the test for a reading below range.min.
measurePort_unclamped(p, raw) ==
  LET measure == IF p.invert THEN Scale - raw ELSE raw
      value == measure - p.min
  IN Frac(value, p.max - p.min)

\* The lambda measurePort of Device::handleLoop for a port with the
\* configuration p and the ADC reading raw (in 1/Scale): the value handed
\* to the filter, as a fraction.
measurePort(p, raw) ==
  LET measure == IF p.invert THEN Scale - raw ELSE raw
      value == measure - p.min
  IN IF value < 0 THEN Frac(0, 1)
     ELSE Frac(value, p.max - p.min)

\* V2Base::getUsecSince(since) at time t.
getUsecSince(t, since) == (t - since) * UsecPerTick

\* Device::handleLoop at time t: the ADC reads raw[i] on port i and the
\* filters end in potis; then the emission pass when it is due.
handleLoop(d, cfg, t, raw, potis) ==
  LET m == IF getUsecSince(t, d.measureUsec) > MeasureUsec
           THEN [d EXCEPT !.potis = potis,
                          !.measured = Some([i \in PortIds |->
                             [raw |-> raw[i], value |-> measurePort(cfg[i], raw[i])]]),
                          !.measureUsec = t]
           ELSE d
  IN IF getUsecSince(t, m.eventsUsec) > EventsUsec
     THEN [sendEvents(m, cfg, FALSE) EXCEPT !.eventsUsec = t]
     ELSE m

\* The device state a handler leaves behind.
Commit(d) ==
  /\ _potis' = d.potis
  /\ _steps' = d.steps
  /\ _measureUsec' = d.measureUsec
  /\ _eventsUsec' = d.eventsUsec
  /\ _rainbow' = d.rainbow
  /\ led' = d.led
  /\ passes' = d.passes
  /\ out' = [sent |-> d.sent, dispatched |-> d.dispatched, cc |-> d.cc,
             measured |-> d.measured, pass |-> d.pass]

\* ------------------------------------------------------------------ router
\* MIDI::loop forwarding the packet with its port field as received.
MIDI_route_samePort(d, cfg, t, _midi) ==
  IF _midi.port = 0
  THEN dispatch(d, cfg, t, _midi)
  ELSE [d EXCEPT !.sent = Append(@, [to |-> "socket", pkt |-> _midi])]

\* MIDI::loop forwarding every packet, also the ones it dispatches.
MIDI_route_everyPort(d, cfg, t, _midi) ==
  LET e == IF _midi.port = 0 THEN dispatch(d, cfg, t, _midi) ELSE d
  IN [e EXCEPT !.sent = Append(@, [to |-> "socket",
                                   pkt |-> [_midi EXCEPT !.port = (_midi.port + 15) % 16]])]

\* MIDI::loop once usb.midi.receive() has filled _midi: port 0 is for this
\* device, any other port goes down the Socket link with one hop less.
MIDI_route(d, cfg, t, _midi) ==
  IF _midi.port = 0
  THEN dispatch(d, cfg, t, _midi)
  ELSE [d EXCEPT !.sent = Append(@, [to |-> "socket",
                                     pkt |-> [_midi EXCEPT !.port = _midi.port - 1]])]

\* Link::receivePlug routing by the address as MIDI::loop routes by the
\* port: only address 0 is dispatched, another address goes down the chain.
receivePlug_routed(d, cfg, t, packet) ==
  IF packet.type = "MIDI"
  THEN IF packet.address = 0
       THEN dispatch(d, cfg, t, receive(packet))
       ELSE [d EXCEPT !.sent = Append(@, [to |-> "socket", pkt |-> receive(packet)])]
  ELSE d

\* Link::receivePlug: a MIDI packet of the parent device is dispatched.
receivePlug(d, cfg, t, packet) ==
  IF packet.type = "MIDI"
  THEN dispatch(d, cfg, t, receive(packet))
  ELSE d

\* Link::receiveSocket handing the address on as the port, with no hop added.
receiveSocket_sameAddress(d, connected, packet) ==
  IF packet.type = "MIDI"
  THEN LET address == packet.address
       IN IF address = BroadcastAddress THEN d
          ELSE IF connected
               THEN [d EXCEPT !.sent = Append(@, [to |-> "usb",
                        pkt |-> [receive(packet) EXCEPT !.port = address]])]
               ELSE d
  ELSE d

\* Link::receiveSocket without the test for the address 0x0f.
receiveSocket_anyAddress(d, connected, packet) ==
  IF packet.type = "MIDI"
  THEN LET address == packet.address
       IN IF connected
          THEN [d EXCEPT !.sent = Append(@, [to |-> "usb",
                   pkt |-> [receive(packet) EXCEPT !.port = address + 1]])]
          ELSE d
  ELSE d

\* Link::receiveSocket without the test for a connected host.
receiveSocket_anyHost(d, connected, packet) ==
  IF packet.type = "MIDI"
  THEN LET address == packet.address
       IN IF address = BroadcastAddress THEN d
          ELSE [d EXCEPT !.sent = Append(@, [to |-> "usb",
                   pkt |-> [receive(packet) EXCEPT !.port = address + 1]])]
  ELSE d

\* Link::receiveSocket: a MIDI packet of a child goes to the host with one
\* hop more, unless it carries the address 0x0f or no host is connected.
receiveSocket(d, connected, packet) ==
  IF packet.type = "MIDI"
  THEN LET address == packet.address
       IN IF address = BroadcastAddress THEN d
          ELSE IF connected
               THEN [d EXCEPT !.sent = Append(@, [to |-> "usb",
                        pkt |-> [receive(packet) EXCEPT !.port = address + 1]])]
               ELSE d
  ELSE d

\* ------------------------------------------------------------------ actions
Ran(name, arg) == op' = [name |-> name, arg |-> arg]

\* What the transport's receive() returns: nothing, or one of the packets.
Received(packets) == {None} \cup {Some(p) : p \in packets}

\* loop(): LED.loop().  The driver refreshes the strip from the pixels.
LED_loop ==
  /\ pc = "LED"
  /\ pc' = "MIDI"
  /\ Ran("LED.loop", None)
  /\ Commit(D)
  /\ UNCHANGED <<config, usbConnected, now>>

\* loop(): MIDI.loop() with what usb.midi.receive() returns.
MIDI_loop(packets) ==
  /\ pc = "MIDI"
  /\ pc' = "Plug"
  /\ \E r \in Received(packets) :
       /\ Ran("MIDI.loop", r)
       /\ IF isNull(r) THEN Commit(D)
          ELSE Commit(MIDI_route(D, config, now, Val(r)))
  /\ UNCHANGED <<config, usbConnected, now>>

\* loop(): Link.loop(), the Plug port: receivePlug when it has a packet.
Link_receivePlug(packets) ==
  /\ pc = "Plug"
  /\ pc' = "Socket"
  /\ \E r \in Received(packets) :
       /\ Ran("Link.receivePlug", r)
       /\ IF isNull(r) THEN Commit(D)
          ELSE Commit(receivePlug(D, config, now, Val(r)))
  /\ UNCHANGED <<config, usbConnected, now>>

\* loop(): Link.loop(), the Socket port: receiveSocket when it has a packet.
Link_receiveSocket(packets) ==
  /\ pc = "Socket"
  /\ pc' = "Device"
  /\ \E r \in Received(packets) :
       /\ Ran("Link.receiveSocket", r)
       /\ IF isNull(r) THEN Commit(D)
          ELSE Commit(receiveSocket(D, usbConnected, Val(r)))
  /\ UNCHANGED <<config, usbConnected, now>>

\* The readings and filter states of all ports, given those of the active ones.
AllPorts(f, rest) == [i \in PortIds |-> IF i \in ActiveIds THEN f[i] ELSE rest[i]]

\* Device::handleLoop called from a timer, between any two calls of loop().
Device_loop_anytime(raws, outcomes) ==
  /\ pc' = pc
  /\ Ran("Device.loop", None)
  /\ IF getUsecSince(now, _measureUsec) > MeasureUsec
     THEN \E raw \in [ActiveIds -> raws], po \in [ActiveIds -> outcomes] :
            Commit(handleLoop(D, config, now,
                              AllPorts(raw, [i \in PortIds |-> 0]),
                              AllPorts(po, _potis)))
     ELSE Commit(handleLoop(D, config, now, [i \in PortIds |-> 0], _potis))
  /\ UNCHANGED <<config, usbConnected, now>>

\* loop(): Device.loop() runs Device::handleLoop.  The ADC reads one of
\* raws on an active port and its filter ends in one of outcomes.
Device_loop(raws, outcomes) ==
  /\ pc = "Device"
  /\ pc' = "LED"
  /\ Ran("Device.loop", None)
  /\ IF getUsecSince(now, _measureUsec) > MeasureUsec
     THEN \E raw \in [ActiveIds -> raws], po \in [ActiveIds -> outcomes] :
            Commit(handleLoop(D, config, now,
                              AllPorts(raw, [i \in PortIds |-> 0]),
                              AllPorts(po, _potis)))
     ELSE Commit(handleLoop(D, config, now, [i \in PortIds |-> 0], _potis))
  /\ UNCHANGED <<config, usbConnected, now>>

\* Time passes.
Tick ==
  /\ now < MaxTime
  /\ now' = now + 1
  /\ Ran("tick", None)
  /\ Commit(D)
  /\ UNCHANGED <<config, usbConnected, pc>>

\* The USB host connects or disconnects.
UsbHostChange ==
  /\ usbConnected' = ~usbConnected
  /\ Ran("usb", None)
  /\ Commit(D)
  /\ UNCHANGED <<config, now, pc>>

\* Device::importConfiguration with one of the documents.
ImportConfiguration(documents) ==
  /\ \E json \in documents :
       /\ config' = importConfiguration(config, json)
       /\ Ran("importConfiguration", Some(json))
  /\ Commit(D)
  /\ UNCHANGED <<usbConnected, now, pc>>

\* The exported configuration is written back: exportConfiguration, then
\* importConfiguration with the document it made.
ExportImport ==
  /\ config' = importConfiguration(config, exportConfiguration(config))
  /\ Ran("exportConfiguration", Some(exportConfiguration(config)))
  /\ Commit(D)
  /\ UNCHANGED <<usbConnected, now, pc>>

\* ------------------------------------------------------------- environment
\* MIDI messages the host or a neighbour sends.
Messages ==
  { [status |-> "NoteOn", channel |-> 0, d1 |-> C3, d2 |-> 127],
    [status |-> "NoteOff", channel |-> 0, d1 |-> C3, d2 |-> 64],
    [status |-> "ControlChange", channel |-> 0, d1 |-> Rainbow, d2 |-> 127],
    [status |-> "ControlChange", channel |-> 0, d1 |-> AllNotesOff, d2 |-> 0],
    [status |-> "SystemReset", channel |-> 0, d1 |-> 0, d2 |-> 0] }

MidiPackets(from, ports, messages) ==
  {Packet(from, n, m.status, m.channel, m.d1, m.d2) : n \in ports, m \in messages}

\* V2Link::Packet: its type, its address and the MIDI message it carries.
LinkPackets(from, addresses, messages) ==
  {[type |-> t, address |-> a, midi |-> p] :
     t \in {"MIDI", "other"}, a \in addresses,
     p \in MidiPackets(from, {0}, messages)}

UsbPackets == MidiPackets("usb", {0, 1, 15}, Messages)
PlugPackets == LinkPackets("plug", {0, 1, 15}, Messages)
SocketPackets == LinkPackets("socket", {0, 14, 15}, Messages)


\* Configuration documents.  A document names one port: the objects before
\* it in the "ports" array are empty.
ChannelInputs == {None} \cup {Some(c) : c \in {0, 2, 16, 17}}
ControllerInputs == {None} \cup {Some(c) : c \in {7, 127, 128, 200}}
BoundInputs == {None} \cup {Some(v) : v \in {0 - 50, 50, 100, 150}}
RangeObjects ==
  [invert : {None, Some(TRUE)}, min : BoundInputs, max : BoundInputs]
\* Port objects with a channel and a controller, and with a range.
ChannelPorts ==
  [channel : ChannelInputs, controller : ControllerInputs, range : {None}]
RangePorts ==
  [channel : {None}, controller : {None}, range : {Some(r) : r \in RangeObjects}]
Padding(k) == [j \in 1 .. k |-> NullPort]
Documents(objects) ==
  {[ports |-> None]} \cup
  {[ports |-> Some(Padding(k) \o << o >>)] : k \in 0 .. (ActivePorts - 1), o \in objects}

\* Documents naming two ports: a port object with any of the five members
\* set or absent for the first port, followed by nothing or by an object
\* with every member for the port ActivePorts places further.
Member(present, v) == IF present THEN Some(v) ELSE None
FrameObject(ch, ct, iv, mn, mx) ==
  [channel |-> Member(ch, 2), controller |-> Member(ct, 7),
   range |-> IF iv \/ mn \/ mx
             THEN Some([invert |-> Member(iv, TRUE), min |-> Member(mn, 50),
                        max |-> Member(mx, 50)])
             ELSE None]
FramePorts ==
  {FrameObject(ch, ct, iv, mn, mx) : ch \in BOOLEAN, ct \in BOOLEAN,
                                     iv \in BOOLEAN, mn \in BOOLEAN, mx \in BOOLEAN}
FullPort ==
  [channel |-> Some(3), controller |-> Some(200),
   range |-> Some([invert |-> Some(FALSE), min |-> Some(0), max |-> Some(150)])]
FrameDocuments ==
  {[ports |-> Some(<< o >> \o rest)] :
     o \in FramePorts,
     rest \in {<< >>, Padding(ActivePorts - 1) \o << FullPort >>}}

\* Note messages around both ends of the window of Ports_count notes that
\* starts at C3, with a velocity of 0, a middle one and the highest.
WindowNotes == {C3 - 1, C3, C3 + Ports_count - 1, C3 + Ports_count}
NoteMessages ==
  {[status |-> "NoteOn", channel |-> 0, d1 |-> n, d2 |-> v] :
     n \in WindowNotes, v \in {0, 64, 127}} \cup
  {[status |-> "NoteOff", channel |-> 0, d1 |-> n, d2 |-> 64] : n \in WindowNotes}

\* Port objects that give a port a channel and a controller of its own.
ConfiguredPorts ==
  {[channel |-> Some(c), controller |-> Some(7), range |-> None] : c \in {2, 17}}

\* The messages that drive the strip: a note of the window on and off, and
\* the Rainbow controller at its highest value and at 0.
LedMessages ==
  { [status |-> "NoteOn", channel |-> 0, d1 |-> C3, d2 |-> 127],
    [status |-> "NoteOff", channel |-> 0, d1 |-> C3, d2 |-> 64],
    [status |-> "ControlChange", channel |-> 0, d1 |-> Rainbow, d2 |-> 127],
    [status |-> "ControlChange", channel |-> 0, d1 |-> Rainbow, d2 |-> 0] }

\* The messages that ask for a re-send or a reset.
ForcedMessages ==
  { [status |-> "ControlChange", channel |-> 0, d1 |-> AllNotesOff, d2 |-> 0],
    [status |-> "ControlChange", channel |-> 0, d1 |-> AllSoundOff, d2 |-> 0],
    [status |-> "SystemReset", channel |-> 0, d1 |-> 0, d2 |-> 0] }

\* What the host and the parent device send in the specifications below,
\* addressed to this device, and the documents that are imported.
ForcedUsbPackets == MidiPackets("usb", {0}, ForcedMessages)
ForcedPlugPackets == LinkPackets("plug", {0}, ForcedMessages)
NoteUsbPackets == MidiPackets("usb", {0}, NoteMessages)
NotePlugPackets == LinkPackets("plug", {0}, NoteMessages)
LedUsbPackets == MidiPackets("usb", {0}, LedMessages)
ChannelDocuments == Documents(ChannelPorts)
RangeDocuments == Documents(RangePorts)
ConfiguredDocuments == Documents(ConfiguredPorts)

\* ------------------------------------------------------------ specifications
\* After setup(): Device.begin() and Device.reset() at time 0.
InitDevice ==
  /\ _potis = [i \in PortIds |-> PotiReset]
  /\ _steps = [i \in PortIds |-> 0]
  /\ _measureUsec = 0
  /\ _eventsUsec = 0
  /\ _rainbow = 0
  /\ led = LedReset
  /\ usbConnected \in BOOLEAN
  /\ now = 0
  /\ pc = "LED"
  /\ op = [name |-> "setup", arg |-> None]
  /\ out = [sent |-> << >>, dispatched |-> << >>, cc |-> << >>, measured |-> << >>,
            pass |-> FALSE]
  /\ passes = 0

Init == config = DefaultConfig /\ InitDevice

\* The main loop routing the traffic of the three transports; the sensors
\* rest and no time passes.
Next ==
  \/ LED_loop
  \/ MIDI_loop(UsbPackets)
  \/ Link_receivePlug(PlugPackets)
  \/ Link_receiveSocket(SocketPackets)
  \/ Device_loop({0}, {PotiReset})
  \/ UsbHostChange

Spec == Init /\ [][Next]_vars


\* The channels and controllers under any sequence of imports.
NextChannel == ImportConfiguration(ChannelDocuments)

SpecChannel == Init /\ [][NextChannel]_vars

\* The ranges under any sequence of imports.
NextRange == ImportConfiguration(RangeDocuments)

SpecRange == Init /\ [][NextRange]_vars

\* The sensors move, time passes, and the host asks for a re-send or a
\* reset.
NextEmit ==
  \/ LED_loop
  \/ MIDI_loop(ForcedUsbPackets)
  \/ Link_receivePlug(ForcedPlugPackets)
  \/ Link_receiveSocket({})
  \/ Device_loop({50}, PotiOutcomes)
  \/ Tick

SpecEmit == Init /\ [][NextEmit]_vars

\* The ports are measured under the ranges an import leaves behind; the
\* filters rest.
InitMeasure ==
  /\ config \in {importConfiguration(DefaultConfig, json) : json \in RangeDocuments}
  /\ InitDevice

NextMeasure ==
  \/ LED_loop
  \/ MIDI_loop({})
  \/ Link_receivePlug({})
  \/ Link_receiveSocket({})
  \/ Device_loop({0, 50, Scale}, {PotiReset})
  \/ Tick

SpecMeasure == InitMeasure /\ [][NextMeasure]_vars

\* Imports of documents that set some members and leave others out.
NextFrame == ImportConfiguration(FrameDocuments)

SpecFrame == Init /\ [][NextFrame]_vars

\* The host and the parent device play notes; the sensors rest.
NextNotes ==
  \/ LED_loop
  \/ MIDI_loop(NoteUsbPackets)
  \/ Link_receivePlug(NotePlugPackets)
  \/ Link_receiveSocket({})
  \/ Device_loop({0}, {PotiReset})

SpecNotes == Init /\ [][NextNotes]_vars

\* The sensors move and the host asks for a re-send or a reset, on a device
\* whose configuration an import has left behind.
InitPorts ==
  /\ config \in {importConfiguration(DefaultConfig, json) :
                   json \in ConfiguredDocuments}
  /\ InitDevice

NextPorts ==
  \/ LED_loop
  \/ MIDI_loop(ForcedUsbPackets)
  \/ Link_receivePlug({})
  \/ Link_receiveSocket({})
  \/ Device_loop({50}, PotiOutcomes)
  \/ Tick

SpecPorts == InitPorts /\ [][NextPorts]_vars

\* The host drives the strip while the sensors move and time passes.
NextLed ==
  \/ LED_loop
  \/ MIDI_loop(LedUsbPackets)
  \/ Link_receivePlug({})
  \/ Link_receiveSocket({})
  \/ Device_loop({50}, PotiOutcomes)
  \/ Tick

SpecLed == Init /\ [][NextLed]_vars

\* Imports of ranges, channels and controllers, and the exported
\* configuration written back.
NextRoundTrip ==
  \/ ImportConfiguration(RangeDocuments \cup ConfiguredDocuments)
  \/ ExportImport

SpecRoundTrip == Init /\ [][NextRoundTrip]_vars

\* ------------------------------------------------------------------- claims
\* The packet the last handler received and what it sent where.
Got(name) == op.name = name /\ ~isNull(op.arg)
Arg == Val(op.arg)
SentTo(to) == SelectSeq(out.sent, LAMBDA e : e.to = to)
Forwarded(to, pkt) == << [to |-> to, pkt |-> pkt] >>

\* C1 as stated: a packet from USB with port N in 1..15 is forwarded on the
\* Plug link with port N-1 and is not dispatched locally.
C1_OnPlug ==
  (Got("MIDI.loop") /\ Arg.port \in 1 .. 15) =>
    /\ out.sent = Forwarded("plug", [Arg EXCEPT !.port = Arg.port - 1])
    /\ out.dispatched = << >>

\* C1, amended: a packet from USB with port N in 1..15 is forwarded on the
\* Socket link (and on no other transport) with port N-1 and is not
\* dispatched locally.
C1_OnSocket ==
  (Got("MIDI.loop") /\ Arg.port \in 1 .. 15) =>
    /\ out.sent = Forwarded("socket", [Arg EXCEPT !.port = Arg.port - 1])
    /\ out.dispatched = << >>

\* A packet with port 15 went down the Socket link with port 14.
C1_Witness ==
  /\ Got("MIDI.loop") /\ Arg.port = 15
  /\ out.sent = Forwarded("socket", [Arg EXCEPT !.port = 14])

\* C2: a packet from USB with port 0 is dispatched locally and is sent on
\* neither link: nothing goes out on Socket, and what goes out on Plug is
\* built by the device, not the packet received.
C2_LocalOnly ==
  (Got("MIDI.loop") /\ Arg.port = 0) =>
    /\ out.dispatched = << Arg >>
    /\ SentTo("socket") = << >>
    /\ \A k \in DOMAIN out.sent : out.sent[k].pkt.from = "device"

\* An All Notes Off with port 0 was dispatched and the device's own
\* Control Changes went out on Plug.
C2_Witness ==
  /\ Got("MIDI.loop") /\ Arg.port = 0 /\ Arg.d1 = AllNotesOff
  /\ out.dispatched = << Arg >>
  /\ SentTo("plug") # << >>

\* C3: a MIDI packet from the Socket link with address A is never dispatched
\* and never sent on Plug or Socket; it is sent to USB, with port A+1, exactly
\* when A < 0x0f and the USB host is connected.
C3_SocketToUsb ==
  (Got("Link.receiveSocket") /\ Arg.type = "MIDI") =>
    /\ out.dispatched = << >>
    /\ IF Arg.address < BroadcastAddress /\ usbConnected
       THEN out.sent = Forwarded("usb", [Arg.midi EXCEPT !.port = Arg.address + 1])
       ELSE out.sent = << >>

\* A child's packet with address 14 reached the connected host with port 15.
C3_Witness ==
  /\ Got("Link.receiveSocket") /\ Arg.type = "MIDI" /\ Arg.address = 14
  /\ usbConnected
  /\ out.sent = Forwarded("usb", [Arg.midi EXCEPT !.port = 15])

\* The port object the last import named, and the port it named.
Imported == Got("importConfiguration") /\ ~isNull(Arg.ports)
ImportedPort == Len(Val(Arg.ports)) - 1
ImportedObject == Val(Arg.ports)[Len(Val(Arg.ports))]

\* C4: after an import every stored channel is in 0..15: an input below 1
\* stores 0, an input above 16 stores 15, an input c in 1..16 stores c-1.
C4_ChannelClamped ==
  /\ \A i \in PortIds : config[i].channel \in 0 .. 15
  /\ (Imported /\ ~isNull(ImportedObject.channel)) =>
       LET c == Val(ImportedObject.channel)
       IN config[ImportedPort].channel =
            (IF c < 1 THEN 0 ELSE IF c > 16 THEN 15 ELSE c - 1)

\* C5: after every import every port has range.min < range.max, so the
\* divisor of measurePort is positive.
C5_MinBelowMax ==
  \A i \in PortIds :
    /\ config[i].min < config[i].max
    /\ \A raw \in {0, Scale} : measurePort(config[i], raw).den > 0

\* C10 as stated: an imported range.min or range.max outside [0,1] stores
\* the nearest bound of [0,1]: 1 for a value above 1, 0 for a value below 0.
C10_NearestBound ==
  Imported /\ ~isNull(ImportedObject.range) =>
    LET r == Val(ImportedObject.range)
        nearest(v) == IF v > Scale THEN Scale ELSE 0
        outside(x) == ~isNull(x) /\ (Val(x) < 0 \/ Val(x) > Scale)
    IN /\ outside(r.min) => config[ImportedPort].min = nearest(Val(r.min))
       /\ outside(r.max) => config[ImportedPort].max = nearest(Val(r.max))

\* C10, amended: an imported range.min outside [0,1] stores 0 and an
\* imported range.max outside [0,1] stores 1, on whichever side of [0,1]
\* the value lies.
C10_DefaultBound ==
  Imported /\ ~isNull(ImportedObject.range) =>
    LET r == Val(ImportedObject.range)
        outside(x) == ~isNull(x) /\ (Val(x) < 0 \/ Val(x) > Scale)
    IN /\ outside(r.min) => config[ImportedPort].min = 0
       /\ outside(r.max) => config[ImportedPort].max = Scale

\* An import with min = 1.5 and max = -0.5 stored min 0 and max 1.
C10_Witness ==
  /\ Imported /\ ~isNull(ImportedObject.range)
  /\ Val(ImportedObject.range).min = Some(150)
  /\ Val(ImportedObject.range).max = Some(0 - 50)
  /\ config[ImportedPort].min = 0
  /\ config[ImportedPort].max = Scale

\* The Control Change Device::sendEvents builds for port i.
PortChange(i) ==
  setControlChange(config[i].channel, config[i].controller, _potis[i].step)

\* The last handler dispatched an All Notes Off or All Sound Off.
ForcedPass ==
  /\ op.name \in {"MIDI.loop", "Link.receivePlug"}
  /\ Len(out.dispatched) = 1
  /\ out.dispatched[1].status = "ControlChange"
  /\ out.dispatched[1].d1 \in {AllNotesOff, AllSoundOff}

\* The last handler was Device::handleLoop and it ran its emission pass.
LoopPass == op.name = "Device.loop" /\ out.pass

\* C6 as stated: the first emission pass of handleLoop after a reset sends
\* one Control Change for each of the 16 ports, wherever the sensors are.
C6_AllPortsAfterReset ==
  (LoopPass /\ passes = 1) => out.cc = PortSeq

\* C6, amended: the first emission pass of handleLoop after a reset sends
\* one Control Change for each port whose filter step is not 0, and none for
\* a port whose step is 0, the value the reset leaves in the cache.
C6_MovedPortsAfterReset ==
  (LoopPass /\ passes = 1) =>
    out.cc = SelectSeq(PortSeq, LAMBDA i : _potis[i].step # 0)

\* The first pass after a reset announced some ports and not all.
C6_Witness ==
  /\ LoopPass /\ passes = 1
  /\ \E i \in ActiveIds : _potis[i].step # 0
  /\ out.cc # << >> /\ Len(out.cc) < Ports_count

\* C7: an All Notes Off or All Sound Off makes the device send one Control
\* Change for each of the 16 ports, in the order of the ports, to USB and
\* to Plug, whatever the cache held.
C7_ForcedSendsAll ==
  ForcedPass =>
    /\ out.cc = PortSeq
    /\ SentTo("usb") = [k \in 1 .. Ports_count |-> [to |-> "usb", pkt |-> PortChange(k - 1)]]
    /\ SentTo("plug") = [k \in 1 .. Ports_count |-> [to |-> "plug", pkt |-> PortChange(k - 1)]]
    /\ Len(out.sent) = 2 * Ports_count

\* A forced pass after earlier passes sent all ports, a moved one among them.
C7_Witness ==
  /\ ForcedPass
  /\ Len(out.cc) = Ports_count
  /\ \E i \in ActiveIds : _potis[i].step # 0
  /\ passes = 2

\* C8: without a reset or a forced re-send, a handler sends a Control Change
\* for a port at most once and only in an emission pass of handleLoop where
\* the filter's step differs from the cached step, which the pass then
\* changes; a port whose step equals the cached step sends nothing.
C8_OnlyOnStepChange ==
  [][ op'.name \notin {"MIDI.loop", "Link.receivePlug"} =>
        /\ out'.cc = SelectSeq(PortSeq, LAMBDA i :
                       out'.pass /\ _steps[i] # _potis'[i].step)
        /\ \A k \in DOMAIN out'.cc : _steps'[out'.cc[k]] # _steps[out'.cc[k]]
        /\ (op'.name # "Device.loop" => out'.cc = << >>) ]_vars

\* An emission pass after a measurement sent nothing for a moved port
\* whose step was the cached one.
C8_Witness ==
  /\ LoopPass /\ passes = 2
  /\ \E i \in ActiveIds : _potis[i].step # 0 /\ _steps[i] = _potis[i].step
  /\ out.cc = << >>
  /\ ~isNull(out.measured)

\* The last handler was Device::handleLoop and it measured the ports.
Measured == op.name = "Device.loop" /\ ~isNull(out.measured)

\* C9: for a port with min < max and a reading r, the value handed to the
\* filter is max(0, (invert ? 1-r : r) - min) / (max - min): 0 when the
\* measurement is below min, never negative, above 1 when the measurement
\* is above max.
C9_Remap ==
  Measured =>
    \A i \in PortIds :
      config[i].min < config[i].max =>
        LET r == Val(out.measured)[i].raw
            v == Val(out.measured)[i].value
            m == IF config[i].invert THEN Scale - r ELSE r
            lower == IF m - config[i].min > 0 THEN m - config[i].min ELSE 0
        IN /\ v.den > 0
           /\ FracEq(v, Frac(lower, config[i].max - config[i].min))
           /\ (m < config[i].min => v.num = 0)
           /\ v.num >= 0
           /\ (m > config[i].max => v.num > v.den)

\* An inverted port with 0 < min < max read full scale and handed 0 on.
C9_Witness ==
  /\ Measured
  /\ \E i \in ActiveIds :
       /\ config[i].invert /\ 0 < config[i].min /\ config[i].min < config[i].max
       /\ Val(out.measured)[i].raw = Scale
       /\ Val(out.measured)[i].value = Frac(0, 1)

\* The port object a document holds for port i, and whether it lacks a
\* member of the port or of its range.
DocPort(json, i) ==
  IF isNull(json.ports) THEN NullPort ELSE jsonPortAt(Val(json.ports), i)
Lacks(o, member) ==
  CASE member = "channel" -> isNull(o.channel)
    [] member = "controller" -> isNull(o.controller)
    [] member = "invert" -> isNull(o.range) \/ isNull(Val(o.range).invert)
    [] member = "min" -> isNull(o.range) \/ isNull(Val(o.range).min)
    [] member = "max" -> isNull(o.range) \/ isNull(Val(o.range).max)

\* C11 as stated: an import leaves every field of every port that the
\* document does not hold exactly as it was.
C11_AbsentKept ==
  [][ op'.name = "importConfiguration" =>
        \A i \in PortIds :
          LET o == DocPort(Val(op'.arg), i)
          IN /\ Lacks(o, "channel") => config'[i].channel = config[i].channel
             /\ Lacks(o, "controller") => config'[i].controller = config[i].controller
             /\ Lacks(o, "invert") => config'[i].invert = config[i].invert
             /\ Lacks(o, "min") => config'[i].min = config[i].min
             /\ Lacks(o, "max") => config'[i].max = config[i].max ]_vars

\* C11, amended: an import leaves an absent channel, controller and invert
\* of every port as they were; an absent range.min or range.max keeps its
\* value unless the document holds the other bound and the stored min is
\* not below the stored max, and then the absent bound gets its default
\* (min 0, max 1).
C11_AbsentKeptOrRepaired ==
  [][ op'.name = "importConfiguration" =>
        \A i \in PortIds :
          LET o == DocPort(Val(op'.arg), i)
          IN /\ Lacks(o, "channel") => config'[i].channel = config[i].channel
             /\ Lacks(o, "controller") => config'[i].controller = config[i].controller
             /\ Lacks(o, "invert") => config'[i].invert = config[i].invert
             /\ Lacks(o, "min") =>
                  config'[i].min =
                    (IF ~Lacks(o, "max") /\ config[i].min >= config'[i].max
                     THEN 0 ELSE config[i].min)
             /\ Lacks(o, "max") =>
                  config'[i].max =
                    (IF ~Lacks(o, "min") /\ config'[i].min >= config[i].max
                     THEN Scale ELSE config[i].max) ]_vars

\* An import that named two ports and held neither the channel nor the
\* max of a port kept that port's channel 1 and its max 0.5.
C11_Witness ==
  /\ Imported /\ Len(Val(Arg.ports)) > 1
  /\ LET o == DocPort(Arg, 0)
     IN /\ Lacks(o, "channel") /\ Lacks(o, "max") /\ ~Lacks(o, "invert")
        /\ config[0].channel = 1 /\ config[0].max = 50

DroppedOnPlug ==
  Got("Link.receivePlug") /\ ~isNull(op.arg) /\ Arg.type # "MIDI"
DroppedOnSocket ==
  /\ Got("Link.receiveSocket") /\ ~isNull(op.arg)
  /\ \/ Arg.type # "MIDI"
     \/ Arg.address = BroadcastAddress
     \/ ~usbConnected
Dropped == DroppedOnPlug \/ DroppedOnSocket

\* Every packet of a link that a handler sent or dispatched is the packet
\* that very handler received.
OwnArgument ==
  /\ \A k \in 1 .. Len(out.sent) :
       out.sent[k].pkt.from \in {"plug", "socket"} =>
         /\ Got("Link.receiveSocket") /\ ~isNull(op.arg) /\ Arg.type = "MIDI"
         /\ out.sent[k].pkt = [Arg.midi EXCEPT !.port = Arg.address + 1]
  /\ \A k \in 1 .. Len(out.dispatched) :
       out.dispatched[k].from \in {"plug", "socket"} =>
         /\ Got("Link.receivePlug") /\ ~isNull(op.arg) /\ Arg.type = "MIDI"
         /\ out.dispatched[k] = receive(Arg)

\* C13: a handler that drops a link packet sends nothing, dispatches
\* nothing and changes neither the configuration nor the runtime state;
\* and no later handler delivers the packet, since whatever a handler
\* sends or dispatches of a link is the packet it received itself.
C13_DropLeavesNoTrace ==
  [][ /\ Dropped' =>
           /\ out'.sent = << >> /\ out'.dispatched = << >>
           /\ UNCHANGED <<config, _potis, _steps, _measureUsec, _eventsUsec,
                          _rainbow, led, usbConnected, now, passes>>
      /\ OwnArgument' ]_vars

\* The Socket handler dropped a MIDI packet of a child because no host was
\* connected.
C13_Witness ==
  /\ DroppedOnSocket /\ Arg.type = "MIDI" /\ Arg.address # BroadcastAddress
  /\ ~usbConnected /\ out.sent = << >>

\* C14: every MIDI packet received on the Plug is handed to the local
\* dispatch whatever its address, and the router forwards it to no
\* transport: what the handler sends are the device's own messages.
C14_PlugAlwaysLocal ==
  (Got("Link.receivePlug") /\ ~isNull(op.arg) /\ Arg.type = "MIDI") =>
    /\ out.dispatched = << receive(Arg) >>
    /\ \A k \in 1 .. Len(out.sent) :
         /\ out.sent[k].pkt.from = "device"
         /\ out.sent[k].to # "socket"

\* The Plug handler dispatched a MIDI packet with a foreign address.
C14_Witness ==
  /\ Got("Link.receivePlug") /\ ~isNull(op.arg) /\ Arg.type = "MIDI"
  /\ Arg.address = 1 /\ Len(out.dispatched) = 1

\* The last handler dispatched a Note On or a Note Off.
NoteHandled ==
  /\ op.name \in {"MIDI.loop", "Link.receivePlug"}
  /\ Len(out.dispatched) = 1
  /\ out.dispatched[1].status \in {"NoteOn", "NoteOff"}

\* C15: a note n of the window [C3, C3 + 15] sets pixel n - C3, an index in
\* 0..15, to the brightness velocity/127 on a Note On with a velocity above
\* 0 and to the brightness 0 on a Note Off or a Note On with velocity 0,
\* and leaves every other pixel alone; a note outside the window leaves
\* the whole strip as it was.
C15_NoteWindow ==
  [][ NoteHandled' =>
        LET m == out'.dispatched[1]
            n == m.d1 - C3
            velocity == IF m.status = "NoteOn" THEN m.d2 ELSE 0
        IN IF m.d1 >= C3 /\ m.d1 <= C3 + 15
           THEN /\ n \in 0 .. 15
                /\ FracEq(led'.pix[n].v, Frac(velocity, 127))
                /\ \A j \in PortIds \ {n} : led'.pix[j] = led.pix[j]
                /\ led'.rainbow = led.rainbow
           ELSE led' = led ]_vars

\* A Note On for the last note of the window lit pixel 15 at 64/127.
C15_Witness ==
  /\ NoteHandled /\ out.dispatched[1].status = "NoteOn"
  /\ out.dispatched[1].d1 = C3 + 15 /\ out.dispatched[1].d2 = 64
  /\ FracEq(led.pix[15].v, Frac(64, 127)) /\ led.pix[15].h = 120

\* The step of loop() the handler ran at, and the step that comes next.
Stepped(name, at, next) == op'.name = name => (pc = at /\ pc' = next)

\* C16: every iteration of loop() runs the LED service, MIDI.loop, Link.loop
\* (its Plug and its Socket handler) and Device.loop in this order, so a
\* packet routed in an iteration is routed before the sensors are sampled
\* and the timed pass emits in that iteration: only Device.loop samples or
\* runs the timed pass, and it is the last step.
C16_LoopOrder ==
  [][ /\ Stepped("LED.loop", "LED", "MIDI")
      /\ Stepped("MIDI.loop", "MIDI", "Plug")
      /\ Stepped("Link.receivePlug", "Plug", "Socket")
      /\ Stepped("Link.receiveSocket", "Socket", "Device")
      /\ Stepped("Device.loop", "Device", "LED")
      /\ op'.name = "tick" => pc' = pc
      /\ (out'.measured # << >> \/ (out'.pass /\ ~ForcedPass')) =>
           op'.name = "Device.loop" ]_vars

\* MIDI.loop dispatched a packet of the host at a time when both the sampling
\* and the timed pass were due: they wait for Device.loop of this iteration.
C16_Witness ==
  /\ Got("MIDI.loop") /\ Len(out.dispatched) = 1 /\ pc = "Plug"
  /\ getUsecSince(now, _measureUsec) > MeasureUsec
  /\ getUsecSince(now, _eventsUsec) > EventsUsec

\* C17: a forced re-send (All Notes Off, All Sound Off) changes no filter
\* (step, fraction), neither the sample nor the emit timer and no
\* configuration: it writes only the brightness of the pixels and the
\* cache of emitted steps.
C17_ForcedWritesLittle ==
  [][ ForcedPass' =>
        /\ _potis' = _potis
        /\ _measureUsec' = _measureUsec /\ _eventsUsec' = _eventsUsec
        /\ config' = config
        /\ _rainbow' = _rainbow /\ led'.rainbow = led.rainbow
        /\ \A i \in PortIds :
             led'.pix[i].h = led.pix[i].h /\ led'.pix[i].s = led.pix[i].s ]_vars

\* A forced re-send after a measurement: a filter off its rest, both timers
\* set, and the pixel and the cache of that port written.
C17_Witness ==
  /\ ForcedPass /\ _measureUsec > 0 /\ _eventsUsec > 0
  /\ \E i \in ActiveIds :
       /\ _potis[i].step # 0 /\ _steps[i] = _potis[i].step
       /\ FracEq(led.pix[i].v, _potis[i].fraction)

\* C18: every Control Change the device emits for port i carries the
\* channel and the controller configured for port i and the current step
\* of its filter; and after every emission pass, forced or timed, the cache
\* holds the current step of the filter of every port.
C18_EmitsConfigured ==
  /\ \A k \in 1 .. Len(out.sent) :
       out.sent[k].pkt.from = "device" =>
         LET i == out.cc[(k + 1) \div 2]
             pkt == out.sent[k].pkt
         IN /\ pkt.status = "ControlChange"
            /\ pkt.channel = config[i].channel
            /\ pkt.d1 = config[i].controller
            /\ pkt.d2 = _potis[i].step
  /\ out.pass => \A i \in PortIds : _steps[i] = _potis[i].step

\* The last handler dispatched a Note On, a Note Off or a Rainbow Control
\* Change.
LedHandled ==
  /\ op.name \in {"MIDI.loop", "Link.receivePlug"}
  /\ Len(out.dispatched) = 1
  /\ \/ out.dispatched[1].status \in {"NoteOn", "NoteOff"}
     \/ /\ out.dispatched[1].status = "ControlChange"
        /\ out.dispatched[1].d1 = Rainbow

\* C19: a Note On, a Note Off or a Rainbow Control Change writes the strip
\* and the rainbow value only: the cache of emitted steps, the filters, the
\* timers and the configuration stay as they are, the handler sends no
\* Control Change, and the ports the next timed pass will send, and the
\* time it is due, are the same as before.
C19_LedOnly ==
  [][ LedHandled' =>
        /\ UNCHANGED <<_steps, _potis, config, _measureUsec, _eventsUsec, passes>>
        /\ out'.sent = << >> /\ out'.cc = << >> /\ ~out'.pass
        /\ \A i \in PortIds :
             (_steps'[i] # _potis'[i].step) = (_steps[i] # _potis[i].step)
        /\ getUsecSince(now', _eventsUsec') = getUsecSince(now, _eventsUsec) ]_vars

\* A Rainbow Control Change arrived while a port had a step to send and the
\* timed pass was due: the step is still to be sent.
C19_Witness ==
  /\ LedHandled /\ out.dispatched[1].d1 = Rainbow /\ _rainbow = 127
  /\ \E i \in ActiveIds : _steps[i] # _potis[i].step
  /\ getUsecSince(now, _eventsUsec) > EventsUsec

\* What the host gets back when the child answers a packet the device has
\* sent down the Socket: the answer carries the port of that packet as its
\* address and arrives while the host is connected.
ReportedBack(down) ==
  receiveSocket(D, TRUE, [type |-> "MIDI", address |-> down.port,
                          midi |-> [down EXCEPT !.from = "socket", !.port = 0]]).sent

\* C20: every packet sent to USB for the Socket carries a port in 1..15 and
\* every Control Change of the device's own ports carries port 0; and the
\* decrement on the way down and the increment on the way up are inverse:
\* the answer to a packet the host sent with port N comes back with port N.
C20_PortsTellOrigin ==
  /\ \A k \in 1 .. Len(out.sent) :
       LET e == out.sent[k]
       IN /\ (e.to = "usb" /\ e.pkt.from = "socket") => e.pkt.port \in 1 .. 15
          /\ e.pkt.from = "device" => e.pkt.port = 0
  /\ (Got("MIDI.loop") /\ ~isNull(op.arg) /\ Arg.port >= 1) =>
       /\ Len(out.sent) = 1 /\ out.sent[1].to = "socket"
       /\ Len(ReportedBack(out.sent[1].pkt)) = 1
       /\ ReportedBack(out.sent[1].pkt)[1].to = "usb"
       /\ ReportedBack(out.sent[1].pkt)[1].pkt.port = Arg.port

\* The host addressed the child with port 15 and the Socket got port 14.
C20_Witness ==
  /\ Got("MIDI.loop") /\ ~isNull(op.arg) /\ Arg.port = 15
  /\ out.sent[1].pkt.port = 14
  /\ ReportedBack(out.sent[1].pkt)[1].pkt.port = 15

\* The messages of the device's own among those the last handler sent.
OwnSent == SelectSeq(out.sent, LAMBDA e : e.pkt.from = "device")

\* C21: every Control Change of an emission pass is sent on the USB
\* endpoint and then on the Plug link, the same message on both, and on the
\* Socket link never, whether a host is connected or not.
C21_UsbThenPlug ==
  /\ Len(OwnSent) = 2 * Len(out.cc)
  /\ \A k \in 1 .. Len(out.cc) :
       /\ OwnSent[2 * k - 1].to = "usb"
       /\ OwnSent[2 * k].to = "plug"
       /\ OwnSent[2 * k].pkt = OwnSent[2 * k - 1].pkt
  /\ \A k \in 1 .. Len(OwnSent) : OwnSent[k].to # "socket"

\* A timed pass with no host connected sent the step of a moved port, to
\* the USB endpoint first.
C21_Witness ==
  /\ LoopPass /\ ~usbConnected /\ Len(out.cc) >= 1
  /\ out.sent[1].to = "usb" /\ out.sent[2].to = "plug"
  /\ out.sent[1].pkt.d2 # 0

\* C22: writing the exported configuration back leaves the channel, the
\* controller, invert, min and max of every port as they were, for every
\* configuration that imports have left behind.
C22_ExportImportIdentity ==
  [][ op'.name = "exportConfiguration" => config' = config ]_vars

====
